---- MODULE Spec2Model ----
(***************************************************************************)
(* A model of the loog revision engine: the diffmap algebra                *)
(* (pkg/diffmap), the bbolt revision store (internal/store/bbolt) and the  *)
(* tracker service (internal/service) that turns object versions into a   *)
(* chain of snapshots and patches.                                         *)
(***************************************************************************)
EXTENDS Integers, Sequences, FiniteSets, TLC

(***************************************************************************)
(* Values of the data model (map[string]any as decoded from JSON/msgpack). *)
(* Every value carries its dynamic Go type in the field t.                 *)
(***************************************************************************)
\* the untyped nil interface value (JSON null)
NullV == [t |-> "null"]
\* a nil map[string]any (what Diff returns for "no change")
NilMap == [t |-> "nil"]
IntV(i) == [t |-> "int", i |-> i]
StrV(s) == [t |-> "str", s |-> s]
ListV(l) == [t |-> "list", l |-> l]
\* a non-nil map[string]any; m is a function from keys to values
MapV(m) == [t |-> "map", m |-> m]
EmptyMap == MapV([k \in {} |-> NullV])

IsMap(v) == v.t = "map"
\* len(m) of a map[string]any, nil maps included
MapLen(v) == IF v.t = "map" THEN Cardinality(DOMAIN v.m) ELSE 0

\* all maps from a subset of keys to vals
MapsOver(keys, vals) == UNION {[ks -> vals] : ks \in SUBSET keys}

(***************************************************************************)
(* pkg/diffmap: Diff                                                       *)
(***************************************************************************)
\* an equalFast that takes any two mappings for equal
equalFastAnyMap(a, b) ==
  CASE a.t \in {"str", "int"} -> b.t = a.t /\ a = b
    [] a.t = "null" -> b.t = "null"
    [] a.t = "map" -> b.t = "map"
    [] OTHER -> a = b

equalFast(a, b) ==
  CASE a.t \in {"str", "int"} -> b.t = a.t /\ a = b
    [] a.t = "null" -> b.t = "null"
    [] a.t = "map" -> b.t = "map" /\ DOMAIN a.m = {} /\ DOMAIN b.m = {}
    [] OTHER -> a = b

RECURSIVE diffRecursive(_, _)
\* a, b are the key->value functions of two non-nil maps; the result is the
\* function that the code builds in `out`
diffRecursive(a, b) ==
  LET changed(k) ==
        IF k \notin DOMAIN b THEN TRUE
        ELSE IF equalFast(a[k], b[k]) THEN FALSE
        ELSE IF IsMap(a[k]) /\ IsMap(b[k])
             THEN DOMAIN diffRecursive(a[k].m, b[k].m) # {}
             ELSE TRUE
      keys == {k \in DOMAIN a : changed(k)} \cup (DOMAIN b \ DOMAIN a)
  IN [k \in keys |->
        IF k \notin DOMAIN b THEN NullV
        ELSE IF k \notin DOMAIN a THEN b[k]
        ELSE IF IsMap(a[k]) /\ IsMap(b[k])
             THEN MapV(diffRecursive(a[k].m, b[k].m))
             ELSE b[k]]

\* the key->value function of a map value; ranging over a nil map visits nothing
Entries(v) == IF v.t = "map" THEN v.m ELSE [k \in {} |-> NullV]

\* Diff without the final len(diff) == 0 test
DiffNoEmptyTest(a, b) ==
  IF MapLen(a) = 0 /\ MapLen(b) = 0 THEN NilMap
  ELSE MapV(diffRecursive(Entries(a), Entries(b)))

Diff(a, b) ==
  IF MapLen(a) = 0 /\ MapLen(b) = 0 THEN NilMap
  ELSE LET diff == diffRecursive(Entries(a), Entries(b))
       IN IF DOMAIN diff = {} THEN NilMap ELSE MapV(diff)

(***************************************************************************)
(* pkg/diffmap: Apply                                                      *)
(***************************************************************************)
RECURSIVE applyRecursive(_, _)
\* dst, chg are key->value functions; the result is dst after the in-place update
applyRecursive(dst, chg) ==
  LET deleted == {k \in DOMAIN chg : chg[k].t \in {"null", "nil"}}
      keys == (DOMAIN dst \ deleted) \cup (DOMAIN chg \ deleted)
  IN [k \in keys |->
        IF k \notin DOMAIN chg THEN dst[k]
        ELSE IF IsMap(chg[k])
             THEN LET subDst == IF k \in DOMAIN dst /\ IsMap(dst[k])
                                THEN dst[k].m
                                ELSE [j \in {} |-> NullV]
                  IN MapV(applyRecursive(subDst, chg[k].m))
             ELSE chg[k]]

\* an Apply that sets a mapping entry as it stands instead of recursing into it
ApplyShallow(dst, chg) ==
  IF dst.t = "nil" \/ chg.t = "nil" \/ MapLen(chg) = 0 THEN dst
  ELSE LET deleted == {k \in DOMAIN chg.m : chg.m[k].t \in {"null", "nil"}}
       IN MapV([k \in (DOMAIN dst.m \cup DOMAIN chg.m) \ deleted |->
                  IF k \in DOMAIN chg.m THEN chg.m[k] ELSE dst.m[k]])

Apply(dst, chg) ==
  IF dst.t = "nil" \/ chg.t = "nil" \/ MapLen(chg) = 0 THEN dst
  ELSE MapV(applyRecursive(dst.m, chg.m))

(***************************************************************************)
(* The objects the diffmap operations are exercised on: nesting three      *)
(* deep, with scalars of two types, null values and lists.                 *)
(***************************************************************************)
Leaves == {IntV(1), IntV(2), StrV("x"), NullV, ListV(<<IntV(1)>>)}
Level0 == MapsOver({"e"}, {IntV(1), NullV})
Vals0 == Leaves \cup {MapV(m) : m \in Level0}
Level1 == MapsOver({"c"}, Vals0)
Vals1 == Leaves \cup {MapV(m) : m \in Level1}
DiffObjects == {MapV(m) : m \in MapsOver({"a", "b"}, Vals1)}

RECURSIVE HasNull(_)
\* does the value hold a null anywhere below a mapping
HasNull(v) ==
  CASE v.t = "null" -> TRUE
    [] v.t = "map" -> \E k \in DOMAIN v.m : HasNull(v.m[k])
    [] OTHER -> FALSE


(***************************************************************************)
(* internal/store: records and their encoding                              *)
(***************************************************************************)
TypeSnapshot == 1
TypePatch == 2

\* store.Snapshot{ID, PreviousID, Object} and store.Patch{ID, PreviousID, Patch}
Snapshot(id, prev, obj) == [ID |-> id, PreviousID |-> prev, Object |-> obj]
Patch(id, prev, chg) == [ID |-> id, PreviousID |-> prev, Patch |-> chg]

\* codec.Marshal of a Snapshot: short field names, PreviousID omitted when zero
MarshalSnapshot(s) ==
  IF s.PreviousID = 0 THEN [i |-> s.ID, o |-> s.Object]
  ELSE [i |-> s.ID, p |-> s.PreviousID, o |-> s.Object]

\* codec.Marshal of a Patch
MarshalPatch(r) ==
  IF r.PreviousID = 0 THEN [i |-> r.ID, s |-> r.Patch]
  ELSE [i |-> r.ID, p |-> r.PreviousID, s |-> r.Patch]

\* codec.Unmarshal into a zero Snapshot / Patch: absent fields keep the zero value
UnmarshalSnapshot(b) ==
  Snapshot(IF "i" \in DOMAIN b THEN b.i ELSE 0,
           IF "p" \in DOMAIN b THEN b.p ELSE 0,
           IF "o" \in DOMAIN b THEN b.o ELSE NilMap)

UnmarshalPatch(b) ==
  Patch(IF "i" \in DOMAIN b THEN b.i ELSE 0,
        IF "p" \in DOMAIN b THEN b.p ELSE 0,
        IF "s" \in DOMAIN b THEN b.s ELSE NilMap)

\* results of a read: exactly the triple (snapshot, patch, err) of the Go code
NoRec == [none |-> TRUE]
GotSnapshot(s) == [snapshot |-> s, patch |-> NoRec, err |-> ""]
GotPatch(r) == [snapshot |-> NoRec, patch |-> r, err |-> ""]
GotErr(e) == [snapshot |-> NoRec, patch |-> NoRec, err |-> e]

\* a parsePatchOrSnapshot that reads every value that is not a Patch as a Snapshot
parsePatchOrSnapshotLenient(v) ==
  IF v[1] = TypePatch THEN GotPatch(UnmarshalPatch(v[2]))
  ELSE GotSnapshot(UnmarshalSnapshot(v[2]))

\* parsePatchOrSnapshot with the two type tags exchanged
parsePatchOrSnapshotSwapped(v) ==
  CASE v[1] = TypePatch -> GotSnapshot(UnmarshalSnapshot(v[2]))
    [] v[1] = TypeSnapshot -> GotPatch(UnmarshalPatch(v[2]))
    [] OTHER -> GotErr("ErrInvalidRevision")

\* v is a stored value: <<type tag, encoded body>>
parsePatchOrSnapshot(v) ==
  CASE v[1] = TypePatch -> GotPatch(UnmarshalPatch(v[2]))
    [] v[1] = TypeSnapshot -> GotSnapshot(UnmarshalSnapshot(v[2]))
    [] OTHER -> GotErr("ErrInvalidRevision")

keyObjectRevision(objectUID, id) == <<objectUID, id>>

\* f with key k set to v
Put(f, k, v) == [x \in DOMAIN f \cup {k} |-> IF x = k THEN v ELSE f[x]]

\* Store.Get inside a read transaction that sees the record bucket recs
Get(recs, objectID, revID) ==
  IF keyObjectRevision(objectID, revID) \notin DOMAIN recs
  THEN GotErr("ErrNotFound")
  ELSE parsePatchOrSnapshot(recs[keyObjectRevision(objectID, revID)])

\* the order of the record keys in the bucket: by uid, then by id
UIDOrder == <<"u1", "u2">>
UIDIndex(u) == CHOOSE i \in 1..Len(UIDOrder) : UIDOrder[i] = u
KeyLess(k1, k2) ==
  \/ UIDIndex(k1[1]) < UIDIndex(k2[1])
  \/ k1[1] = k2[1] /\ k1[2] < k2[2]

RECURSIVE WalkObjectRevisions(_, _)
\* Store.WalkObjectRevisions inside a read transaction that sees recs: the keys
\* in ascending order, the sequence of the (uid, id, snapshot, patch) yielded
WalkObjectRevisions(recs, keys) ==
  IF keys = {} THEN <<>>
  ELSE LET k == CHOOSE x \in keys : \A y \in keys \ {x} : KeyLess(x, y)
       IN <<[objectUID |-> k[1], revisionID |-> k[2],
             rec |-> parsePatchOrSnapshot(recs[k])]>>
            \o WalkObjectRevisions(recs, keys \ {k})

(***************************************************************************)
(* internal/util: ExtractResourceVersion                                   *)
(***************************************************************************)
\* [rv |-> resourceVersion, ok |-> found and a string]
ExtractResourceVersion(objectAsMap) ==
  IF "metadata" \notin DOMAIN Entries(objectAsMap) THEN [rv |-> "", ok |-> FALSE]
  ELSE LET metadata == objectAsMap.m["metadata"]
       IN IF ~IsMap(metadata) THEN [rv |-> "", ok |-> FALSE]
          ELSE IF "resourceVersion" \notin DOMAIN metadata.m THEN [rv |-> "", ok |-> FALSE]
          ELSE IF metadata.m["resourceVersion"].t # "str" THEN [rv |-> "", ok |-> FALSE]
          ELSE [rv |-> metadata.m["resourceVersion"].s, ok |-> TRUE]

(***************************************************************************)
(* internal/service: TrackerService                                        *)
(***************************************************************************)
DefaultSnapshotEvery == 8

NewTrackerService(k) == IF k = 0 THEN DefaultSnapshotEvery ELSE k

\* the snapshot condition one patch later
snapshotDueLate(chain, every) == chain >= every

\* check if it's time for a full snapshot: uint64(chain) >= t.snapshotEvery-1
snapshotDue(chain, every) == chain >= every - 1

RECURSIVE patchDistanceLoop(_, _, _, _)
\* the loop of patchDistance: [n |-> length of the patch chain, err |-> error]
patchDistanceLoop(recs, obj, cur, n) ==
  LET g == Get(recs, obj, cur)
  IN IF g.err # "" THEN [n |-> 0, err |-> g.err]
     ELSE IF g.snapshot # NoRec THEN [n |-> n, err |-> ""]
     ELSE IF g.patch # NoRec
     THEN patchDistanceLoop(recs, obj, g.patch.PreviousID, n + 1)
     ELSE [n |-> 0, err |-> "no base snapshot found"]

patchDistance(recs, obj, from) == patchDistanceLoop(recs, obj, from, 0)

RECURSIVE applyChain(_, _, _)
\* for i := len(patchChain)-1 .. 0: diffmap.Apply(state, patchChain[i].Patch)
applyChain(state, patchChain, i) ==
  IF i = 0 THEN state
  ELSE applyChain(Apply(state, patchChain[i].Patch), patchChain, i - 1)

RECURSIVE restoreLoop(_, _, _, _, _)
\* the loop of Restore: [snapshot |-> restored Snapshot, err |-> error]
restoreLoop(recs, objID, revision, currentRevision, patchChain) ==
  LET g == Get(recs, objID, currentRevision)
  IN IF g.err # "" THEN [snapshot |-> NoRec, err |-> g.err]
     ELSE IF g.snapshot # NoRec
     THEN [snapshot |-> Snapshot(revision, 0,
                          applyChain(g.snapshot.Object, patchChain, Len(patchChain))),
           err |-> ""]
     ELSE IF g.patch # NoRec
     THEN restoreLoop(recs, objID, revision, g.patch.PreviousID,
                      Append(patchChain, g.patch))
     ELSE [snapshot |-> NoRec, err |-> "no base snapshot found"]

Restore(recs, objID, revision) == restoreLoop(recs, objID, revision, revision, <<>>)


(***************************************************************************)
(* State                                                                   *)
(***************************************************************************)
VARIABLES
  bucketLatest,         \* durable: objectID -> next revision to assign
  bucketSnapshots,      \* durable: <<objectID, id>> -> <<type tag, body>>
  nextRevisionCounter,  \* Store.nextRevisionCounter, the in-memory hot map
  writer,               \* the goroutine inside db.Update, or "none"
  snapshotEvery,        \* TrackerService.snapshotEvery
  pc,                   \* where each goroutine stands
  loc,                  \* the locals of the call each goroutine is in
  ret,                  \* what the call that returned last returned
  committed,            \* history: <<objectID, id>> -> newObject of the Commit that returned id
  returned,             \* history: objectID -> the IDs successful writes returned, in order
  started               \* history: number of Commit calls made so far

VARIABLES dA, dB, dChg, dDst, dPc

VARIABLES
  cache,                \* the tracker's stateCache and its janitor goroutine
  mux,                  \* the event Mux, its channel and its informer callback
  walk                  \* a record bucket keyed by bytes and one walk over it

svars == <<bucketLatest, bucketSnapshots, nextRevisionCounter, writer,
           snapshotEvery, pc, loc, ret, committed, returned, started>>
dvars == <<dA, dB, dChg, dDst, dPc>>
xvars == <<cache, mux, walk>>
vars == <<svars, dvars, xvars>>

\* bounds of the model
MaxCommits == 3
MaxK == 2
\* the hard cap of the cache, scaled down from 100_000
maxTrackedEntries == 1
\* options.Buffer, the capacity of the events channel, scaled down from 1024
Buffer == 2
\* the number of events the informer hands to the Mux
MaxEvents == 6
\* the number of records of the bucket that is walked
MaxWalkRecs == 3

Procs == {"g1", "g2"}
Main == "g1"
UIDs == {"u1", "u2"}
ConcUID == "u1"

\* the objects the goroutines commit
Meta(rv) == MapV([k \in {"resourceVersion"} |-> StrV(rv)])
ObjA == MapV([k \in {"metadata", "a"} |-> IF k = "a" THEN IntV(1) ELSE Meta("1")])
ObjB == MapV([k \in {"metadata", "a", "b"} |->
               CASE k = "a" -> IntV(2)
                 [] k = "b" -> MapV([j \in {"c"} |-> IntV(1)])
                 [] OTHER -> Meta("2")])
ObjC == MapV([k \in {"a", "b"} |-> IF k = "a" THEN IntV(1) ELSE NullV])
ObjPool == {ObjA, ObjB, ObjC}

IdleLoc == [op |-> "none", uid |-> "", obj |-> NilMap, latest |-> 0, next |-> 0,
            kind |-> "none", prev |-> 0, body |-> NilMap, id |-> 0, floor |-> -1,
            ctx |-> "live"]
NoRet == [op |-> "none", uid |-> "", rev |-> 0, err |-> "", val |-> NilMap]

EmptyFn == [x \in {} |-> 0]

AllIdle == \A p \in Procs : pc[p] = "idle"

\* the call of goroutine p returns r
Return(p, r) ==
  /\ pc' = [pc EXCEPT ![p] = "idle"]
  /\ loc' = [loc EXCEPT ![p] = IdleLoc]
  /\ ret' = r

(***************************************************************************)
(* Store.GetLatestRevision, in its three steps                             *)
(***************************************************************************)
\* the highest ID a finished write of objectID has returned, -1 if none
LastReturned(u) == IF returned[u] = <<>> THEN -1 ELSE returned[u][Len(returned[u])]

\* what follows GetLatestRevision returning (latest, nil) in goroutine p
AfterLatest(p, latest) ==
  IF loc[p].op = "commit"
  THEN /\ pc' = [pc EXCEPT ![p] = "dist"]
       /\ loc' = [loc EXCEPT ![p].latest = latest]
       /\ UNCHANGED ret
  ELSE Return(p, [op |-> "glr", uid |-> loc[p].uid, rev |-> latest, err |-> "",
                  val |-> IntV(loc[p].floor)])

StartGetLatestRevision(p, u) ==
  /\ pc[p] = "idle"
  /\ pc' = [pc EXCEPT ![p] = "glr_hot"]
  /\ loc' = [loc EXCEPT ![p] = [IdleLoc EXCEPT !.op = "glr", !.uid = u,
                                               !.floor = LastReturned(u)]]
  /\ ret' = NoRet
  /\ UNCHANGED <<dvars, xvars, bucketLatest, bucketSnapshots, nextRevisionCounter, writer,
                 snapshotEvery, committed, returned, started>>

\* check cache first (under the read lock)
GlrHot(p) ==
  /\ pc[p] = "glr_hot"
  /\ IF loc[p].uid \in DOMAIN nextRevisionCounter
     THEN AfterLatest(p, nextRevisionCounter[loc[p].uid] - 1)
     ELSE /\ pc' = [pc EXCEPT ![p] = "glr_view"]
          /\ UNCHANGED <<loc, ret>>
  /\ UNCHANGED <<dvars, xvars, bucketLatest, bucketSnapshots, nextRevisionCounter, writer,
                 snapshotEvery, committed, returned, started>>

\* the first Commit of an object: snapshot := store.Snapshot{Object: newObject.Object}
FirstSnapshot(p) ==
  /\ pc' = [pc EXCEPT ![p] = "write"]
  /\ loc' = [loc EXCEPT ![p].kind = "snapshot", ![p].prev = 0, ![p].body = loc[p].obj]
  /\ UNCHANGED ret

\* db.View: read the durable pointer
GlrView(p) ==
  /\ pc[p] = "glr_view"
  /\ IF loc[p].uid \notin DOMAIN bucketLatest
     THEN IF loc[p].op = "commit"
          THEN FirstSnapshot(p)
          ELSE Return(p, [op |-> "glr", uid |-> loc[p].uid, rev |-> 0,
                          err |-> "ErrNotFound", val |-> IntV(loc[p].floor)])
     ELSE /\ pc' = [pc EXCEPT ![p] = "glr_fill"]
          /\ loc' = [loc EXCEPT ![p].next = bucketLatest[loc[p].uid]]
          /\ UNCHANGED ret
  /\ UNCHANGED <<dvars, xvars, bucketLatest, bucketSnapshots, nextRevisionCounter, writer,
                 snapshotEvery, committed, returned, started>>

\* store what the view read in the hot map (under the write lock) and return
GlrFill(p) ==
  /\ pc[p] = "glr_fill"
  /\ nextRevisionCounter' = Put(nextRevisionCounter, loc[p].uid, loc[p].next)
  /\ AfterLatest(p, loc[p].next - 1)
  /\ UNCHANGED <<dvars, xvars, bucketLatest, bucketSnapshots, writer, snapshotEvery,
                 committed, returned, started>>

(***************************************************************************)
(* TrackerService.Commit                                                   *)
(***************************************************************************)
StartCommit(p, u, o) ==
  /\ pc[p] = "idle"
  /\ started < MaxCommits
  /\ started' = started + 1
  /\ pc' = [pc EXCEPT ![p] = "glr_hot"]
  /\ loc' = [loc EXCEPT ![p] = [IdleLoc EXCEPT !.op = "commit", !.uid = u, !.obj = o,
                                               !.floor = LastReturned(u)]]
  /\ ret' = NoRet
  /\ UNCHANGED <<dvars, xvars, bucketLatest, bucketSnapshots, nextRevisionCounter, writer,
                 snapshotEvery, committed, returned>>

CommitErr(p, e) ==
  Return(p, [op |-> "commit", uid |-> loc[p].uid, rev |-> 0, err |-> e,
             val |-> loc[p].obj])

\* patchDistance, the snapshot-or-patch decision, and the Restore and Diff of a patch
CommitDecide(p) ==
  /\ pc[p] = "dist"
  /\ LET u == loc[p].uid
         latest == loc[p].latest
         chain == patchDistance(bucketSnapshots, u, latest)
         base == Restore(bucketSnapshots, u, latest)
     IN IF chain.err # "" THEN CommitErr(p, chain.err)
        ELSE IF snapshotDue(chain.n, snapshotEvery)
        THEN /\ pc' = [pc EXCEPT ![p] = "write"]
             /\ loc' = [loc EXCEPT ![p].kind = "snapshot", ![p].prev = latest,
                                   ![p].body = loc[p].obj]
             /\ UNCHANGED ret
        ELSE IF base.err # "" THEN CommitErr(p, base.err)
        ELSE /\ pc' = [pc EXCEPT ![p] = "write"]
             /\ loc' = [loc EXCEPT ![p].kind = "patch", ![p].prev = latest,
                                   ![p].body = Diff(base.snapshot.Object, loc[p].obj)]
             /\ UNCHANGED ret
  /\ UNCHANGED <<dvars, xvars, bucketLatest, bucketSnapshots, nextRevisionCounter, writer,
                 snapshotEvery, committed, returned, started>>

(***************************************************************************)
(* Store.SetSnapshot / Store.SetPatch: one db.Update transaction           *)
(***************************************************************************)
\* claimNextRevision without the increment of next
claimNextRevisionNoBump(latest, objectID) ==
  LET next == IF objectID \in DOMAIN latest THEN latest[objectID] ELSE 0
  IN [revisionNumber |-> next, next |-> IF next = 0 THEN 1 ELSE next]

\* the revision claimNextRevision assigns, given the latest bucket of the transaction
claimNextRevision(latest, objectID) ==
  LET next == IF objectID \in DOMAIN latest THEN latest[objectID] ELSE 0
  IN [revisionNumber |-> next, next |-> next + 1]

\* an encoding whose PreviousID points one revision ahead of the record
EncodeRecordAhead(kind, id, prev, body) ==
  IF kind = "snapshot"
  THEN <<TypeSnapshot, MarshalSnapshot(Snapshot(id, id + 1, body))>>
  ELSE <<TypePatch, MarshalPatch(Patch(id, id + 1, body))>>

\* the value put under the record key
EncodeRecord(kind, id, prev, body) ==
  IF kind = "snapshot"
  THEN <<TypeSnapshot, MarshalSnapshot(Snapshot(id, prev, body))>>
  ELSE <<TypePatch, MarshalPatch(Patch(id, prev, body))>>

\* db.Update begins (one writer at a time); claimNextRevision advances the
\* pointer inside the transaction and the hot map in memory
TxBegin(p) ==
  /\ pc[p] = "write"
  /\ writer = "none"
  /\ LET c == claimNextRevision(bucketLatest, loc[p].uid)
     IN /\ nextRevisionCounter' = Put(nextRevisionCounter, loc[p].uid, c.next)
        /\ loc' = [loc EXCEPT ![p].id = c.revisionNumber, ![p].next = c.next]
  /\ writer' = p
  /\ pc' = [pc EXCEPT ![p] = "commit"]
  /\ UNCHANGED <<dvars, xvars, bucketLatest, bucketSnapshots, snapshotEvery, ret, committed,
                 returned, started>>

\* the transaction commits the record but not the advanced pointer
TxCommitNoPointer(p) ==
  /\ pc[p] = "commit"
  /\ writer = p
  /\ bucketSnapshots' = Put(bucketSnapshots, keyObjectRevision(loc[p].uid, loc[p].id),
                            EncodeRecord(loc[p].kind, loc[p].id, loc[p].prev, loc[p].body))
  /\ writer' = "none"
  /\ committed' = Put(committed, <<loc[p].uid, loc[p].id>>, loc[p].obj)
  /\ returned' = [returned EXCEPT ![loc[p].uid] = Append(@, loc[p].id)]
  /\ Return(p, [op |-> "commit", uid |-> loc[p].uid, rev |-> loc[p].id, err |-> "",
                val |-> loc[p].obj])
  /\ UNCHANGED <<dvars, xvars, bucketLatest, nextRevisionCounter, snapshotEvery, started>>

\* the transaction commits: pointer and record become durable together
TxCommit(p) ==
  /\ pc[p] = "commit"
  /\ writer = p
  /\ bucketLatest' = Put(bucketLatest, loc[p].uid, loc[p].next)
  /\ bucketSnapshots' = Put(bucketSnapshots, keyObjectRevision(loc[p].uid, loc[p].id),
                            EncodeRecord(loc[p].kind, loc[p].id, loc[p].prev, loc[p].body))
  /\ writer' = "none"
  /\ committed' = Put(committed, <<loc[p].uid, loc[p].id>>, loc[p].obj)
  /\ returned' = [returned EXCEPT ![loc[p].uid] = Append(@, loc[p].id)]
  /\ Return(p, [op |-> "commit", uid |-> loc[p].uid, rev |-> loc[p].id, err |-> "",
                val |-> loc[p].obj])
  /\ UNCHANGED <<dvars, xvars, nextRevisionCounter, snapshotEvery, started>>

\* the transaction fails (a Put or the commit returns an error): bbolt rolls the
\* buckets back, the hot map keeps what claimNextRevision stored in it
TxFail(p) ==
  /\ pc[p] = "commit"
  /\ writer = p
  /\ writer' = "none"
  /\ Return(p, [op |-> "commit", uid |-> loc[p].uid, rev |-> loc[p].id,
                err |-> "tx failed", val |-> IntV(loc[p].latest)])
  /\ UNCHANGED <<dvars, xvars, bucketLatest, bucketSnapshots, nextRevisionCounter,
                 snapshotEvery, committed, returned, started>>

(***************************************************************************)
(* cmd/loog: loadHistoryFromDB                                             *)
(***************************************************************************)
RECURSIVE loadHistoryLoop(_, _, _, _)
\* the yield callback over the walk: objectRevisionState is the state per uid,
\* out the object handed on for each (uid, id)
loadHistoryLoop(yields, i, objectRevisionState, out) ==
  IF i > Len(yields) THEN [out |-> out, err |-> ""]
  ELSE LET y == yields[i]
           k == <<y.objectUID, y.revisionID>>
       IN IF y.rec.err # "" THEN [out |-> out, err |-> y.rec.err]
          ELSE IF y.rec.snapshot # NoRec
          THEN loadHistoryLoop(yields, i + 1,
                               Put(objectRevisionState, y.objectUID, y.rec.snapshot.Object),
                               Put(out, k, y.rec.snapshot.Object))
          ELSE IF y.objectUID \notin DOMAIN objectRevisionState
          THEN [out |-> out, err |-> "nil pointer dereference"]
          ELSE LET base == Apply(objectRevisionState[y.objectUID], y.rec.patch.Patch)
               IN loadHistoryLoop(yields, i + 1, Put(objectRevisionState, y.objectUID, base),
                                  Put(out, k, base))

loadHistoryFromDB(recs) ==
  loadHistoryLoop(WalkObjectRevisions(recs, DOMAIN recs), 1, EmptyFn, EmptyFn)

RECURSIVE loadHistoryHeld(_, _, _, _)
\* the same loop with the sharing that maps.Copy leaves: held is what the
\* object handed on for each (uid, id) reads after the yields so far, own the
\* yield at which the nested value under each of its keys was allocated.
\* Apply updates a nested mapping of base in place, and with it every object
\* handed on earlier that shares that mapping.
loadHistoryHeld(yields, i, held, own) ==
  IF i > Len(yields) \/ yields[i].rec.err # "" THEN held
  ELSE LET y == yields[i]
           k == <<y.objectUID, y.revisionID>>
           before == {j \in 1..(i - 1) : yields[j].objectUID = y.objectUID}
       IN IF y.rec.snapshot # NoRec
          THEN loadHistoryHeld(yields, i + 1, Put(held, k, y.rec.snapshot.Object),
                               Put(own, k, [j \in DOMAIN Entries(y.rec.snapshot.Object) |-> k]))
          ELSE IF before = {} THEN held
          ELSE LET last == CHOOSE j \in before : \A x \in before : x <= j
                   p == <<yields[last].objectUID, yields[last].revisionID>>
                   chg == Entries(y.rec.patch.Patch)
                   base == Apply(held[p], y.rec.patch.Patch)
                   inPlace == {j \in DOMAIN Entries(held[p]) \cap DOMAIN chg :
                                 IsMap(chg[j]) /\ IsMap(held[p].m[j])}
                   shared == [d \in DOMAIN held |->
                                IF ~IsMap(held[d]) THEN held[d]
                                ELSE MapV([j \in DOMAIN held[d].m |->
                                             IF j \in inPlace /\ own[d][j] = own[p][j]
                                             THEN base.m[j]
                                             ELSE held[d].m[j]])]
               IN loadHistoryHeld(yields, i + 1, Put(shared, k, base),
                                  Put(own, k, [j \in DOMAIN Entries(base) |->
                                                 IF j \in DOMAIN chg /\ j \notin inPlace
                                                 THEN k ELSE own[p][j]]))

(***************************************************************************)
(* Reads a caller makes directly                                           *)
(***************************************************************************)
\* TrackerService.Restore(ctx, u, r)
DoRestore(p, u, r) ==
  /\ pc[p] = "idle"
  /\ LET s == Restore(bucketSnapshots, u, r)
     IN ret' = [op |-> "restore", uid |-> u, rev |-> r, err |-> s.err,
                val |-> IF s.err = "" THEN s.snapshot.Object ELSE NilMap]
  /\ UNCHANGED <<dvars, xvars, bucketLatest, bucketSnapshots, nextRevisionCounter, writer,
                 snapshotEvery, pc, loc, committed, returned, started>>

\* Store.Get(ctx, u, r)
DoGet(p, u, r) ==
  /\ pc[p] = "idle"
  /\ ret' = [op |-> "get", uid |-> u, rev |-> r, err |-> Get(bucketSnapshots, u, r).err,
             val |-> Get(bucketSnapshots, u, r)]
  /\ UNCHANGED <<dvars, xvars, bucketLatest, bucketSnapshots, nextRevisionCounter, writer,
                 snapshotEvery, pc, loc, committed, returned, started>>

\* loadHistoryFromDB on the store as it stands
DoLoad(p) ==
  /\ pc[p] = "idle"
  /\ bucketSnapshots # EmptyFn
  /\ LET h == loadHistoryFromDB(bucketSnapshots)
     IN ret' = [op |-> "load", uid |-> "", rev |-> 0, err |-> h.err, val |-> h.out]
  /\ UNCHANGED <<dvars, xvars, bucketLatest, bucketSnapshots, nextRevisionCounter, writer,
                 snapshotEvery, pc, loc, committed, returned, started>>

\* the store is closed and opened again: New starts with an empty hot map
Reopen ==
  /\ AllIdle
  /\ nextRevisionCounter # EmptyFn
  /\ nextRevisionCounter' = EmptyFn
  /\ UNCHANGED <<dvars, xvars, bucketLatest, bucketSnapshots, writer, snapshotEvery, pc, loc,
                 ret, committed, returned, started>>

InitStore ==
  /\ bucketLatest = EmptyFn
  /\ bucketSnapshots = EmptyFn
  /\ nextRevisionCounter = EmptyFn
  /\ writer = "none"
  /\ pc = [p \in Procs |-> "idle"]
  /\ loc = [p \in Procs |-> IdleLoc]
  /\ ret = NoRet
  /\ committed = EmptyFn
  /\ returned = [u \in UIDs |-> <<>>]
  /\ started = 0

\* the diffmap exerciser at rest
DiffIdle == dA = NilMap /\ dB = NilMap /\ dChg = NilMap /\ dDst = NilMap /\ dPc = "off"

\* a tracker built without cache (no janitor goroutine) and no Mux
CacheOff == [data |-> EmptyFn, janitor |-> "off", stopCh |-> "open", closed |-> FALSE,
             lateSweep |-> FALSE]
MuxOff == [events |-> <<>>, closed |-> FALSE, running |-> FALSE, done |-> FALSE,
           cb |-> "off", handed |-> 0, returned |-> {}, received |-> {},
           panicked |-> FALSE]
WalkOff == [recs |-> EmptyFn, written |-> {}, out |-> <<>>, stop |-> 0, pc |-> "off"]
XIdle == cache = CacheOff /\ mux = MuxOff /\ walk = WalkOff

Init ==
  /\ InitStore
  /\ \E k \in 0..MaxK : snapshotEvery = NewTrackerService(k)
  /\ DiffIdle
  /\ XIdle

Step(p) ==
  \/ GlrHot(p)
  \/ GlrView(p)
  \/ GlrFill(p)
  \/ CommitDecide(p)
  \/ TxBegin(p)
  \/ TxCommit(p)

\* one goroutine calling the tracker and the store, one call at a time
Next ==
  \/ \E u \in UIDs, o \in ObjPool : StartCommit(Main, u, o)
  \/ \E u \in UIDs : StartGetLatestRevision(Main, u)
  \/ \E u \in UIDs, r \in 0..MaxCommits : DoRestore(Main, u, r)
  \/ DoLoad(Main)
  \/ Step(Main)
  \/ Reopen

Spec == Init /\ [][Next]_vars

\* the caller's context is cancelled while its Commit has not committed its
\* write; Commit hands ctx on, SetSnapshot and SetPatch take it as _ and no
\* step of the call reads it
Cancel(p) ==
  /\ loc[p].op = "commit"
  /\ loc[p].ctx = "live"
  /\ loc' = [loc EXCEPT ![p].ctx = "cancelled"]
  /\ UNCHANGED <<dvars, xvars, bucketLatest, bucketSnapshots, nextRevisionCounter, writer,
                 snapshotEvery, pc, ret, committed, returned, started>>

NextCancel ==
  \/ Next
  \/ Cancel(Main)

SpecCancel == Init /\ [][NextCancel]_vars

\* the same caller on a store whose write transactions can fail
NextFault ==
  \/ Next
  \/ TxFail(Main)

SpecFault == Init /\ [][NextFault]_vars

\* TrackerService.Restore(ctx, u, r) begins: currentRevision := revision
StartRestore(p, u, r) ==
  /\ pc[p] = "idle"
  /\ pc' = [pc EXCEPT ![p] = "walk"]
  /\ loc' = [loc EXCEPT ![p] = [IdleLoc EXCEPT !.op = "restore", !.uid = u, !.id = r,
                                               !.latest = r, !.body = <<>>]]
  /\ ret' = NoRet
  /\ UNCHANGED <<dvars, xvars, bucketLatest, bucketSnapshots, nextRevisionCounter, writer,
                 snapshotEvery, committed, returned, started>>

\* one turn of the loop of Restore: Get(currentRevision) in its own read
\* transaction; an error returns it, a Snapshot ends the walk and the chain is
\* applied, a Patch is appended and the walk goes on at its PreviousID
RestoreStep(p) ==
  /\ pc[p] = "walk"
  /\ LET g == Get(bucketSnapshots, loc[p].uid, loc[p].latest)
         r == [op |-> "restore", uid |-> loc[p].uid, rev |-> loc[p].id,
               err |-> g.err, val |-> NilMap]
     IN IF g.err # "" THEN Return(p, r)
        ELSE IF g.snapshot # NoRec
        THEN Return(p, [r EXCEPT !.val = applyChain(g.snapshot.Object, loc[p].body,
                                                    Len(loc[p].body))])
        ELSE IF g.patch # NoRec
        THEN /\ loc' = [loc EXCEPT ![p].body = Append(@, g.patch),
                                   ![p].latest = g.patch.PreviousID]
             /\ UNCHANGED <<pc, ret>>
        ELSE Return(p, [r EXCEPT !.err = "no base snapshot found"])
  /\ UNCHANGED <<dvars, xvars, bucketLatest, bucketSnapshots, nextRevisionCounter, writer,
                 snapshotEvery, committed, returned, started>>

\* one goroutine committing while another restores, turn by turn of its loop
NextRestore ==
  \/ \E o \in ObjPool : StartCommit(Main, ConcUID, o)
  \/ Step(Main)
  \/ \E p \in Procs \ {Main}, r \in 0..MaxCommits : StartRestore(p, ConcUID, r)
  \/ \E p \in Procs \ {Main} : RestoreStep(p)
  \/ Reopen

SpecRestore == Init /\ [][NextRestore]_vars

\* a store file as Get finds it: under each key of GetKeys nothing, a record as
\* SetSnapshot or SetPatch encodes it, or a value whose type tag is neither
GetKeys == {<<"u1", 0>>, <<"u1", 1>>}
UnknownTags == {0, TypeSnapshot + TypePatch}
PrevOf(id) == IF id = 0 THEN 0 ELSE id - 1
PatchPool == {NilMap, Diff(ObjA, ObjB), Diff(ObjB, ObjC)}
StoredChoices ==
  {[kind |-> "none", tag |-> 0, body |-> NilMap]}
    \cup {[kind |-> "snapshot", tag |-> TypeSnapshot, body |-> o] : o \in ObjPool}
    \cup {[kind |-> "patch", tag |-> TypePatch, body |-> c] : c \in PatchPool}
    \cup {[kind |-> "foreign", tag |-> t, body |-> ObjA] : t \in UnknownTags}

StoredValue(c, id) ==
  IF c.kind = "foreign" THEN <<c.tag, MarshalSnapshot(Snapshot(id, PrevOf(id), c.body))>>
  ELSE EncodeRecord(c.kind, id, PrevOf(id), c.body)

InitGet ==
  /\ \E f \in [GetKeys -> StoredChoices] :
       LET present == {k \in GetKeys : f[k].kind # "none"}
       IN /\ \A k \in present : k[2] = 0 \/ <<k[1], k[2] - 1>> \in present
          /\ \A k \in present : k[2] = 0 => f[k].kind # "patch"
          /\ bucketSnapshots = [k \in present |-> StoredValue(f[k], k[2])]
          /\ committed = [k \in present |-> f[k]]
          /\ bucketLatest = [u \in {k[1] : k \in present} |->
                                Cardinality({k \in present : k[1] = u})]
  /\ nextRevisionCounter = EmptyFn
  /\ writer = "none"
  /\ pc = [p \in Procs |-> "idle"]
  /\ loc = [p \in Procs |-> IdleLoc]
  /\ ret = NoRet
  /\ returned = [u \in UIDs |-> <<>>]
  /\ started = 0
  /\ snapshotEvery = DefaultSnapshotEvery
  /\ DiffIdle
  /\ XIdle

NextGet == \E u \in UIDs, r \in 0..MaxCommits : DoGet(Main, u, r)

SpecGet == InitGet /\ [][NextGet]_vars

\* corruption: the record under key k is lost from the store file
Corrupt(k) ==
  /\ AllIdle
  /\ k \in DOMAIN bucketSnapshots
  /\ DOMAIN bucketSnapshots = DOMAIN committed
  /\ bucketSnapshots' = [x \in DOMAIN bucketSnapshots \ {k} |-> bucketSnapshots[x]]
  /\ ret' = NoRet
  /\ UNCHANGED <<dvars, xvars, bucketLatest, nextRevisionCounter, writer, snapshotEvery,
                 pc, loc, committed, returned, started>>

\* Restore and Commit on a store file that may be corrupted
NextCorrupt ==
  \/ \E k \in GetKeys : Corrupt(k)
  \/ \E r \in 0..MaxCommits : DoRestore(Main, ConcUID, r)
  \/ \E o \in ObjPool : StartCommit(Main, ConcUID, o)
  \/ Step(Main)

SpecCorrupt == InitGet /\ [][NextCorrupt]_vars

\* the goroutines of Procs calling Commit and GetLatestRevision for one object in parallel
NextConc ==
  \/ \E p \in Procs, o \in ObjPool : StartCommit(p, ConcUID, o)
  \/ \E p \in Procs : StartGetLatestRevision(p, ConcUID)
  \/ \E p \in Procs : Step(p)
  \/ Reopen

SpecConc == Init /\ [][NextConc]_vars

\* the goroutines of Procs all committing to one object in parallel
NextWriters ==
  \/ \E p \in Procs, o \in ObjPool : StartCommit(p, ConcUID, o)
  \/ \E p \in Procs : Step(p)
  \/ Reopen

SpecWriters == Init /\ [][NextWriters]_vars

(***************************************************************************)
(* internal/service: stateCache, its janitor, and Commit through the cache *)
(***************************************************************************)
\* a set that stores whatever the number of entries
cacheSetNoCap(data, uid, ts) ==
  Put(data, uid, ts)

\* stateCache.set: overwrites (or creates) the entry while len(data) is below the cap
cacheSet(data, uid, ts) ==
  IF Cardinality(DOMAIN data) < maxTrackedEntries THEN Put(data, uid, ts) ELSE data

\* the record a Commit of o writes for u on top of the previous state prev
\* (found, rev, obj, err), and the object it materializes
commitRecord(recs, u, prev, o, every) ==
  IF ~prev.found
  THEN [err |-> "", kind |-> "snapshot", prev |-> 0, body |-> o, obj |-> o]
  ELSE LET chain == patchDistance(recs, u, prev.rev)
           chg == Diff(prev.obj, o)
       IN IF chain.err # ""
          THEN [err |-> chain.err, kind |-> "none", prev |-> 0, body |-> NilMap, obj |-> NilMap]
          ELSE IF snapshotDue(chain.n, every)
          THEN [err |-> "", kind |-> "snapshot", prev |-> prev.rev, body |-> o, obj |-> o]
          ELSE IF prev.err # ""
          THEN [err |-> prev.err, kind |-> "none", prev |-> 0, body |-> NilMap, obj |-> NilMap]
          ELSE [err |-> "", kind |-> "patch", prev |-> prev.rev, body |-> chg,
                obj |-> Apply(prev.obj, chg)]

\* Commit of a tracker with cache, from one caller: the previous state is the
\* cache entry on a hit, GetLatestRevision and Restore on a miss; the entry is
\* set to the new state after the write.  ret.val holds the record written and
\* the record a tracker without cache writes on the same store.
CachedCommit(p, u, o) ==
  /\ pc[p] = "idle"
  /\ cache.janitor # "off" /\ ~cache.closed
  /\ started < MaxCommits
  /\ started' = started + 1
  /\ LET latest == IF u \in DOMAIN nextRevisionCounter THEN nextRevisionCounter[u] - 1
                   ELSE IF u \in DOMAIN bucketLatest THEN bucketLatest[u] - 1 ELSE -1
         base == Restore(bucketSnapshots, u, latest)
         plainPrev == IF latest = -1
                      THEN [found |-> FALSE, rev |-> 0, obj |-> NilMap, err |-> ""]
                      ELSE [found |-> TRUE, rev |-> latest, err |-> base.err,
                            obj |-> IF base.err = "" THEN base.snapshot.Object ELSE NilMap]
         prev == IF u \in DOMAIN cache.data
                 THEN [found |-> TRUE, rev |-> cache.data[u].rev, err |-> "",
                       obj |-> cache.data[u].obj]
                 ELSE plainPrev
         rec == commitRecord(bucketSnapshots, u, prev, o, snapshotEvery)
         plain == commitRecord(bucketSnapshots, u, plainPrev, o, snapshotEvery)
         c == claimNextRevision(bucketLatest, u)
         id == c.revisionNumber
     IN /\ ret' = [op |-> "ccommit", uid |-> u, rev |-> IF rec.err = "" THEN id ELSE 0,
                   err |-> rec.err, val |-> [cached |-> rec, plain |-> plain]]
        /\ IF rec.err # ""
           THEN UNCHANGED <<bucketLatest, bucketSnapshots, nextRevisionCounter, committed,
                            returned, cache>>
           ELSE /\ bucketLatest' = Put(bucketLatest, u, c.next)
                /\ nextRevisionCounter' = Put(nextRevisionCounter, u, c.next)
                /\ bucketSnapshots' = Put(bucketSnapshots, keyObjectRevision(u, id),
                                          EncodeRecord(rec.kind, id, rec.prev, rec.body))
                /\ committed' = Put(committed, <<u, id>>, o)
                /\ returned' = [returned EXCEPT ![u] = Append(@, id)]
                /\ cache' = [cache EXCEPT !.data = cacheSet(@, u, [obj |-> rec.obj, rev |-> id])]
  /\ UNCHANGED <<dvars, mux, walk, writer, snapshotEvery, pc, loc>>

\* janitor: the ticker fires and the select takes that case
JanitorTick ==
  /\ cache.janitor = "select"
  /\ cache' = [cache EXCEPT !.janitor = "sweep"]
  /\ UNCHANGED <<svars, dvars, mux, walk>>

\* stateCache.evictCold: the entries whose age exceeds their ttl go (any of them,
\* the clock is not modelled); lateSweep records a sweep after close has returned
JanitorSweep ==
  /\ cache.janitor = "sweep"
  /\ \E cold \in SUBSET DOMAIN cache.data :
       cache' = [cache EXCEPT !.data = [x \in DOMAIN cache.data \ cold |-> cache.data[x]],
                              !.janitor = "select",
                              !.lateSweep = cache.lateSweep \/ cache.closed]
  /\ UNCHANGED <<svars, dvars, mux, walk>>

\* janitor: the select takes the stopCh case and the goroutine returns
JanitorStop ==
  /\ cache.janitor = "select"
  /\ cache.stopCh = "closed"
  /\ cache' = [cache EXCEPT !.janitor = "stopped"]
  /\ UNCHANGED <<svars, dvars, mux, walk>>

\* stateCache.close: close(stopCh), clear the entries, return
CacheClose ==
  /\ AllIdle
  /\ cache.janitor # "off"
  /\ cache.stopCh = "open"
  /\ cache' = [cache EXCEPT !.stopCh = "closed", !.data = EmptyFn, !.closed = TRUE]
  /\ UNCHANGED <<svars, dvars, mux, walk>>

\* newStateCache: empty, with the janitor goroutine started
InitCache ==
  /\ InitStore
  /\ \E k \in 0..MaxK : snapshotEvery = NewTrackerService(k)
  /\ DiffIdle
  /\ cache = [CacheOff EXCEPT !.janitor = "select"]
  /\ mux = MuxOff
  /\ walk = WalkOff

NextCache ==
  \/ \E u \in UIDs, o \in ObjPool : CachedCommit(Main, u, o)
  \/ JanitorTick
  \/ JanitorSweep
  \/ JanitorStop
  \/ CacheClose

SpecCache == InitCache /\ [][NextCache]_vars

(***************************************************************************)
(* internal/service: stateCache on its own, one caller and the janitor.    *)
(* Entries are pointers: data maps a uid to an index of heap; the clock    *)
(* counts seconds.  touched is the time of the set or get call that last   *)
(* reached the entry (history, not read by the code).                      *)
(***************************************************************************)
ttlBase == 40
ttlHitBonus == 4
\* the latest time of the clock
MaxNow == 88
\* the numbers of set and get calls of the caller
MaxSets == 2
MaxGets == 2

\* c.mu is free: evictCold holds it from Lock to Unlock
MuFree == cache.ev.pc \notin {"loop", "store"}

\* the heap as the program can see it: an entry that neither the map nor the
\* caller points to is garbage and takes no further part
Reachable(c) ==
  [c EXCEPT !.heap = [i \in DOMAIN c.heap |->
                        IF i = c.call.e \/ \E u \in DOMAIN c.data : c.data[u] = i
                        THEN c.heap[i]
                        ELSE [lastRead |-> 0, hitCount |-> 0, touched |-> 0]]]

\* time passes
Tick ==
  /\ cache.now + ttlBase + ttlHitBonus <= MaxNow
  /\ cache' = [cache EXCEPT !.now = @ + ttlBase + ttlHitBonus]
  /\ UNCHANGED <<svars, dvars, mux, walk>>

\* stateCache.set, the part under c.mu: ts is a new entry whose lastRead is
\* what the caller gave it (the zero value, or the time of the call)
SetLocked(uid, lr) ==
  /\ cache.call.pc = "idle"
  /\ MuFree
  /\ cache.sets < MaxSets
  /\ LET ts == Len(cache.heap) + 1
     IN cache' = Reachable([cache EXCEPT
                    !.heap = Append(@, [lastRead |-> lr, hitCount |-> 0,
                                        touched |-> cache.now]),
                    !.data = cacheSet(@, uid, ts),
                    !.call = [pc |-> "set_stamp", uid |-> uid, e |-> ts],
                    !.sets = @ + 1])
  /\ UNCHANGED <<svars, dvars, mux, walk>>

\* stateCache.set, after the unlock: atomic.StoreInt64(&ts.lastRead, now)
SetStamp ==
  /\ cache.call.pc = "set_stamp"
  /\ cache' = Reachable([cache EXCEPT !.heap[cache.call.e].lastRead = cache.now,
                                      !.call = [pc |-> "idle", uid |-> "", e |-> 0]])
  /\ UNCHANGED <<svars, dvars, mux, walk>>

\* stateCache.get, the lookup under the read lock; nil on a miss
GetLookup(uid) ==
  /\ cache.call.pc = "idle"
  /\ MuFree
  /\ cache.gets < MaxGets
  /\ IF uid \in DOMAIN cache.data
     THEN cache' = [cache EXCEPT !.call = [pc |-> "get_add", uid |-> uid,
                                           e |-> cache.data[uid]],
                                 !.heap[cache.data[uid]].touched = cache.now,
                                 !.gets = @ + 1]
     ELSE cache' = [cache EXCEPT !.gets = @ + 1]
  /\ UNCHANGED <<svars, dvars, mux, walk>>

\* atomic.AddUint32(&entry.hitCount, 1)
GetAdd ==
  /\ cache.call.pc = "get_add"
  /\ cache' = [cache EXCEPT !.heap[cache.call.e].hitCount = @ + 1,
                            !.call.pc = "get_stamp"]
  /\ UNCHANGED <<svars, dvars, mux, walk>>

\* atomic.StoreInt64(&entry.lastRead, now); return entry
GetStamp ==
  /\ cache.call.pc = "get_stamp"
  /\ cache' = Reachable([cache EXCEPT !.heap[cache.call.e].lastRead = cache.now,
                                      !.call = [pc |-> "idle", uid |-> "", e |-> 0]])
  /\ UNCHANGED <<svars, dvars, mux, walk>>

\* evictCold: now := time.Now()
EvictNow ==
  /\ cache.ev.pc = "idle"
  /\ cache' = [cache EXCEPT !.ev.pc = "lock", !.ev.now = cache.now]
  /\ UNCHANGED <<svars, dvars, mux, walk>>

\* evictCold: c.mu.Lock() and the start of the range over c.data
EvictLock ==
  /\ cache.ev.pc = "lock"
  /\ cache' = [cache EXCEPT !.ev.todo = DOMAIN cache.data,
                            !.ev.pc = IF cache.data = EmptyFn THEN "idle" ELSE "loop"]
  /\ UNCHANGED <<svars, dvars, mux, walk>>

\* what follows the entry k of the range: the next entry, or c.mu.Unlock()
EvictNext(k) == IF cache.ev.todo = {k} THEN "idle" ELSE "loop"

\* evictCold, one entry of the range: age and ttl from the loads of lastRead
\* and hitCount; delete when age > ttl, otherwise hc := load of hitCount
EvictLoad(k) ==
  /\ cache.ev.pc = "loop"
  /\ k \in cache.ev.todo
  /\ LET e == cache.heap[cache.data[k]]
         age == cache.ev.now - e.lastRead
         ttl == ttlBase + e.hitCount * ttlHitBonus
     IN IF age > ttl
        THEN cache' = Reachable([cache EXCEPT
                         !.data = [x \in DOMAIN cache.data \ {k} |-> cache.data[x]],
                         !.ev.todo = @ \ {k},
                         !.ev.pc = EvictNext(k)])
        ELSE cache' = [cache EXCEPT !.ev.k = k, !.ev.hc = e.hitCount, !.ev.pc = "store"]
  /\ UNCHANGED <<svars, dvars, mux, walk>>

\* evictCold: if hc > 0 { atomic.StoreUint32(&e.hitCount, hc/2) }
EvictStore ==
  /\ cache.ev.pc = "store"
  /\ cache' = [cache EXCEPT
                 !.heap[cache.data[cache.ev.k]].hitCount =
                    IF cache.ev.hc > 0 THEN cache.ev.hc \div 2 ELSE @,
                 !.ev.todo = @ \ {cache.ev.k},
                 !.ev.pc = EvictNext(cache.ev.k)]
  /\ UNCHANGED <<svars, dvars, mux, walk>>

\* newStateCache: an empty map, the janitor waiting for its ticker
InitEntries ==
  /\ InitStore
  /\ snapshotEvery = DefaultSnapshotEvery
  /\ DiffIdle
  /\ cache = [data |-> EmptyFn, heap |-> <<>>, now |-> 0, sets |-> 0, gets |-> 0,
              call |-> [pc |-> "idle", uid |-> "", e |-> 0],
              ev |-> [pc |-> "idle", now |-> 0, todo |-> {}, k |-> "", hc |-> 0]]
  /\ mux = MuxOff
  /\ walk = WalkOff

NextEntries ==
  \/ Tick
  \/ \E uid \in UIDs, stamped \in BOOLEAN : SetLocked(uid, IF stamped THEN cache.now ELSE 0)
  \/ SetStamp
  \/ \E uid \in UIDs : GetLookup(uid)
  \/ GetAdd
  \/ GetStamp
  \/ EvictNow
  \/ EvictLock
  \/ \E k \in UIDs : EvictLoad(k)
  \/ EvictStore

SpecEntries == InitEntries /\ [][NextEntries]_vars

(***************************************************************************)
(* cmd/loog main: the replay and the collector, started side by side       *)
(***************************************************************************)
\* the process starts on a store that has records: go loadHistoryFromDB(...)
\* opens the read transaction of WalkObjectRevisions
StartLoad(p) ==
  /\ AllIdle
  /\ nextRevisionCounter = EmptyFn
  /\ cache.data = EmptyFn
  /\ bucketSnapshots # EmptyFn
  /\ pc' = [pc EXCEPT ![p] = "replay"]
  /\ loc' = [loc EXCEPT ![p] = [IdleLoc EXCEPT
                !.op = "load", !.next = 1,
                !.body = WalkObjectRevisions(bucketSnapshots, DOMAIN bucketSnapshots)]]
  /\ ret' = NoRet
  /\ UNCHANGED <<dvars, xvars, bucketLatest, bucketSnapshots, nextRevisionCounter, writer,
                 snapshotEvery, committed, returned, started>>

\* one call of the yield callback: rebuild the object of the record and
\* trackerService.WarmCache(objectUID, current)
LoadYield(p) ==
  /\ pc[p] = "replay"
  /\ LET i == loc[p].next
         h == loadHistoryLoop(SubSeq(loc[p].body, 1, i), 1, EmptyFn, EmptyFn)
         y == loc[p].body[i]
     IN IF i > Len(loc[p].body) \/ h.err # ""
        THEN /\ Return(p, [op |-> "load", uid |-> "", rev |-> 0,
                           err |-> IF i > Len(loc[p].body) THEN "" ELSE h.err,
                           val |-> NilMap])
             /\ UNCHANGED cache
        ELSE /\ cache' = [cache EXCEPT !.data =
                           cacheSet(@, y.objectUID,
                                    [obj |-> h.out[<<y.objectUID, y.revisionID>>],
                                     rev |-> y.revisionID])]
             /\ loc' = [loc EXCEPT ![p].next = i + 1, ![p].uid = y.objectUID]
             /\ UNCHANGED <<pc, ret>>
  /\ UNCHANGED <<dvars, mux, walk, bucketLatest, bucketSnapshots, nextRevisionCounter,
                 writer, snapshotEvery, committed, returned, started>>

\* main: an earlier run has committed, the process starts again, and the
\* replay goroutine and the collector goroutine run side by side
NextMain ==
  \/ \E o \in ObjPool : StartCommit(Main, ConcUID, o)
  \/ Step(Main)
  \/ Reopen
  \/ \E p \in Procs \ {Main} : StartLoad(p)
  \/ \E p \in Procs \ {Main} : LoadYield(p)

SpecMain == Init /\ [][NextMain]_vars

(***************************************************************************)
(* bbolt store: the record keys as bytes, and the walk over the bucket     *)
(***************************************************************************)
\* the separator byte '|' between the uid and the revision id
SepByte == 124

\* binary.BigEndian.PutUint64: the eight bytes of id, most significant first
\* (the ids of the model are below 2^32, so the upper four bytes are zero)
BigEndian(id) ==
  [i \in 1..8 |-> IF i < 5 THEN 0 ELSE (id \div (256 ^ (8 - i))) % 256]

\* keyObjectRevision on bytes: uid, separator, big-endian id
keyObjectRevisionBytes(objectUID, id) ==
  objectUID \o <<SepByte>> \o BigEndian(id)

\* splitObjectRevisionKey: the uid is what precedes the first separator byte,
\* the id is the uint64 read from the eight bytes after it (kept as bytes)
splitObjectRevisionKey(key) ==
  IF \A i \in 1..Len(key) : key[i] # SepByte
  THEN [objectUID |-> <<>>, id |-> BigEndian(0)]
  ELSE LET sep == CHOOSE i \in 1..Len(key) :
                    key[i] = SepByte /\ \A j \in 1..(i - 1) : key[j] # SepByte
       IN [objectUID |-> SubSeq(key, 1, sep - 1),
           id |-> SubSeq(key, sep + 1, sep + 8)]

\* bytes.Compare(a, b) < 0, the order of the keys in a bucket and of Go strings
BytesLess(a, b) ==
  \/ Len(a) < Len(b) /\ a = SubSeq(b, 1, Len(a))
  \/ \E i \in 1..Len(a) :
       /\ i <= Len(b)
       /\ a[i] < b[i]
       /\ SubSeq(a, 1, i - 1) = SubSeq(b, 1, i - 1)

RECURSIVE walkBucket(_, _, _)
\* Store.WalkObjectRevisions on the byte keys, inside one read transaction that
\* sees recs: the cursor visits the keys in byte order, each key is split and
\* its value parsed and yielded; yield returns false at its left-th call
walkBucket(recs, keys, left) ==
  IF keys = {} THEN <<>>
  ELSE LET k == CHOOSE x \in keys : \A y \in keys \ {x} : BytesLess(x, y)
           sp == splitObjectRevisionKey(k)
           y == [objectUID |-> sp.objectUID, revisionID |-> sp.id,
                 rec |-> parsePatchOrSnapshot(recs[k])]
       IN IF left = 1 THEN <<y>>
          ELSE <<y>> \o walkBucket(recs, keys \ {k}, left - 1)

\* the uids "a", "ab", "a|b" and "b"
WalkUIDs == {<<97>>, <<97, 98>>, <<97, 124, 98>>, <<98>>}

\* SetSnapshot / SetPatch of the next revision of uid u
WalkPut(u, kind) ==
  /\ walk.pc = "fill"
  /\ Cardinality(walk.written) < MaxWalkRecs
  /\ LET id == Cardinality({w \in walk.written : w.objectUID = u})
         prev == IF id = 0 THEN 0 ELSE id - 1
         body == IF kind = "snapshot" THEN ObjA ELSE NilMap
     IN /\ id = 0 => kind = "snapshot"
        /\ walk' = [walk EXCEPT
             !.recs = Put(@, keyObjectRevisionBytes(u, id),
                          EncodeRecord(kind, id, prev, body)),
             !.written = @ \cup {[objectUID |-> u, id |-> id, kind |-> kind]}]
  /\ UNCHANGED <<svars, dvars, cache, mux>>

\* one WalkObjectRevisions whose yield returns false at its n-th call
DoWalk(n) ==
  /\ walk.pc = "fill"
  /\ walk' = [walk EXCEPT !.out = walkBucket(walk.recs, DOMAIN walk.recs, n),
                          !.stop = n, !.pc = "done"]
  /\ UNCHANGED <<svars, dvars, cache, mux>>

InitWalk ==
  /\ InitStore
  /\ snapshotEvery = NewTrackerService(0)
  /\ DiffIdle
  /\ cache = CacheOff /\ mux = MuxOff
  /\ walk = [WalkOff EXCEPT !.pc = "fill"]

NextWalk ==
  \/ \E u \in WalkUIDs, kind \in {"snapshot", "patch"} : WalkPut(u, kind)
  \/ \E n \in 1..(MaxWalkRecs + 1) : DoWalk(n)

SpecWalk == InitWalk /\ [][NextWalk]_vars

(***************************************************************************)
(* dynamicmux: the Mux, one informer callback and one consumer             *)
(***************************************************************************)
\* the informer invokes the callback made by wrapHandler with the next event
\* (events are numbered in the order they are handed over)
MuxHand ==
  /\ mux.running
  /\ mux.cb = "idle"
  /\ mux.handed < MaxEvents
  /\ mux' = [mux EXCEPT !.handed = @ + 1, !.cb = "select"]
  /\ UNCHANGED <<svars, dvars, cache, walk>>

\* select case m.events <- event: there is room in the channel, or the channel
\* is closed and the send panics; the callback returns (no handler registered)
MuxSend ==
  /\ mux.cb = "select"
  /\ mux.closed \/ Len(mux.events) < Buffer
  /\ mux' = IF mux.closed THEN [mux EXCEPT !.panicked = TRUE, !.cb = "idle"]
            ELSE [mux EXCEPT !.events = Append(@, mux.handed), !.cb = "idle",
                             !.returned = @ \cup {mux.handed}]
  /\ UNCHANGED <<svars, dvars, cache, walk>>

\* select case <-time.After(maxEventCallbackTime): the channel stayed full for
\* the grace period, the event is dropped and logged
MuxTimeout ==
  /\ mux.cb = "select"
  /\ ~mux.closed /\ Len(mux.events) >= Buffer
  /\ mux' = [mux EXCEPT !.cb = "idle", !.returned = @ \cup {mux.handed}]
  /\ UNCHANGED <<svars, dvars, cache, walk>>

\* select case <-m.ctx.Done(): return
MuxDone ==
  /\ mux.cb = "select"
  /\ mux.done
  /\ mux' = [mux EXCEPT !.cb = "idle", !.returned = @ \cup {mux.handed}]
  /\ UNCHANGED <<svars, dvars, cache, walk>>

\* the consumer receives from Events()
MuxRecv ==
  /\ mux.events # <<>>
  /\ mux' = [mux EXCEPT !.events = Tail(@), !.received = @ \cup {Head(mux.events)}]
  /\ UNCHANGED <<svars, dvars, cache, walk>>

\* Mux.Stop: running = false, cancel, close(m.events)
MuxStop ==
  /\ mux.running
  /\ mux' = [mux EXCEPT !.running = FALSE, !.done = TRUE, !.closed = TRUE]
  /\ UNCHANGED <<svars, dvars, cache, walk>>

\* New: a running Mux with an empty channel
InitMux ==
  /\ InitStore
  /\ snapshotEvery = NewTrackerService(0)
  /\ DiffIdle
  /\ cache = CacheOff /\ walk = WalkOff
  /\ mux = [MuxOff EXCEPT !.running = TRUE, !.cb = "idle"]

NextMux == MuxHand \/ MuxSend \/ MuxTimeout \/ MuxDone \/ MuxRecv \/ MuxStop

SpecMux == InitMux /\ [][NextMux]_vars

(***************************************************************************)
(* The diffmap operations on their own: Diff, then Apply on a copy of a    *)
(***************************************************************************)
\* chg := diffmap.Diff(a, b)
DoDiff ==
  /\ dPc = "diff"
  /\ dChg' = Diff(dA, dB)
  /\ dPc' = "apply"
  /\ UNCHANGED <<svars, xvars, dA, dB, dDst>>

\* dst := copy of a; diffmap.Apply(dst, chg)
DoApply ==
  /\ dPc = "apply"
  /\ dDst' = Apply(IF dA = NilMap THEN EmptyMap ELSE dA, dChg)
  /\ dPc' = "done"
  /\ UNCHANGED <<svars, xvars, dA, dB, dChg>>

\* diffmap.Apply(a, b): the object b taken as a change-set and applied to a
DoApplyTo ==
  /\ dPc = "diff"
  /\ dChg' = dB
  /\ dDst' = Apply(dA, dB)
  /\ dPc' = "applied"
  /\ UNCHANGED <<svars, xvars, dA, dB>>

InitDiff ==
  /\ InitStore
  /\ snapshotEvery = DefaultSnapshotEvery
  /\ dA \in DiffObjects \cup {NilMap}
  /\ dB \in DiffObjects \cup {NilMap}
  /\ dChg = NilMap
  /\ dDst = NilMap
  /\ dPc = "diff"
  /\ XIdle

NextDiff == DoDiff \/ DoApply \/ DoApplyTo

SpecDiff == InitDiff /\ [][NextDiff]_vars

(***************************************************************************)
(* Properties                                                              *)
(***************************************************************************)
\* C1: Restore(uid, r) of a revision r that a successful Commit returned
\* succeeds and yields the newObject of that Commit
RestoreSound ==
  (ret.op = "restore" /\ <<ret.uid, ret.rev>> \in DOMAIN committed)
    => (ret.err = "" /\ ret.val = committed[<<ret.uid, ret.rev>>])

\* is the record stored under key k a Snapshot
IsSnapshotAt(k) == bucketSnapshots[k][1] = TypeSnapshot

LatestNow(u) ==
  IF u \in DOMAIN nextRevisionCounter THEN nextRevisionCounter[u] - 1
  ELSE IF u \in DOMAIN bucketLatest THEN bucketLatest[u] - 1
  ELSE -1

DuplicateSuppressed ==
  (ret.op = "commit" /\ ret.err = "" /\ ret.rev > 0) =>
    LET prev == ExtractResourceVersion(committed[<<ret.uid, ret.rev - 1>>])
        new == ExtractResourceVersion(ret.val)
    IN ~(prev.ok /\ new.ok /\ prev.rv = new.rv)

\* C7: a write that returns an error leaves no record at the ID it claimed,
\* leaves the durable pointer as it was, and leaves the hot map equal to the
\* durable pointer, so that GetLatestRevision returns what it did before
WriteAtomic ==
  (ret.op = "commit" /\ ret.err = "tx failed") =>
    /\ <<ret.uid, ret.rev>> \notin DOMAIN bucketSnapshots
    /\ (IF ret.uid \in DOMAIN bucketLatest THEN bucketLatest[ret.uid] ELSE 0) = ret.rev
    /\ LatestNow(ret.uid) = ret.rev - 1
    /\ ret.uid \in DOMAIN nextRevisionCounter =>
         /\ ret.uid \in DOMAIN bucketLatest
         /\ nextRevisionCounter[ret.uid] = bucketLatest[ret.uid]

\* C8: a GetLatestRevision that starts after a write returned r does not return
\* less than r (NotFound only for a uid never written), and with no write in
\* flight the hot map holds the durable pointer
LatestNeverBehind ==
  /\ (ret.op = "glr" /\ ret.val.i >= 0) => (ret.err = "" /\ ret.rev >= ret.val.i)
  /\ writer = "none" =>
       \A u \in DOMAIN nextRevisionCounter :
         u \in DOMAIN bucketLatest /\ nextRevisionCounter[u] = bucketLatest[u]

\* C9: replaying the walk rebuilds, at every revision of every uid, the object
\* committed at that revision
ColdStartFidelity ==
  ret.op = "load" =>
    /\ ret.err = ""
    /\ DOMAIN ret.val = DOMAIN committed
    /\ \A k \in DOMAIN committed : ret.val[k] = committed[k]

\* C10: Get returns exactly one of snapshot and patch, the record written under
\* the key, when the key holds a record; NotFound when the key is absent;
\* InvalidRevision when the type tag is neither snapshot nor patch
GetContract ==
  ret.op = "get" =>
    LET k == <<ret.uid, ret.rev>>
    IN IF k \notin DOMAIN committed THEN ret.val = GotErr("ErrNotFound")
       ELSE CASE committed[k].kind = "snapshot" ->
                   ret.val = GotSnapshot(Snapshot(k[2], PrevOf(k[2]), committed[k].body))
              [] committed[k].kind = "patch" ->
                   ret.val = GotPatch(Patch(k[2], PrevOf(k[2]), committed[k].body))
              [] OTHER -> ret.val = GotErr("ErrInvalidRevision")

GetContractWitness ==
  /\ ret.op = "get" /\ ret.rev = 1 /\ ret.err = ""
  /\ ret.val.patch # NoRec /\ ret.val.snapshot = NoRec
  /\ committed[<<ret.uid, 0>>].kind = "foreign"

\* C11: a Commit through the cache writes the record, and returns the error,
\* that a tracker without cache writes and returns on the same store
CacheTransparent ==
  ret.op = "ccommit" =>
    /\ ret.val.cached.err = ret.val.plain.err
    /\ ret.val.cached.kind = ret.val.plain.kind
    /\ ret.val.cached.prev = ret.val.plain.prev
    /\ ret.val.cached.body = ret.val.plain.body

\* C12: a Commit whose context was cancelled before its write committed writes
\* no record, leaves the latest pointer alone and returns the cancellation error
CancelLeavesNoTrace ==
  [][\A p \in Procs :
       (loc[p].op = "commit" /\ loc[p].ctx = "cancelled") =>
         /\ bucketSnapshots' = bucketSnapshots
         /\ bucketLatest' = bucketLatest
         /\ pc'[p] = "idle" => ret'.err = "context canceled"]_vars

\* C13: once close has returned the janitor performs no further sweep
NoSweepAfterClose == ~cache.lateSweep

\* C14: Diff(a, a) is nil for every object a, so is Diff of two absent or empty
\* objects, and every diff that is not nil holds at least one entry
EmptyDiff ==
  dPc \in {"apply", "done"} =>
    /\ dA = dB => dChg = NilMap
    /\ (MapLen(dA) = 0 /\ MapLen(dB) = 0) => dChg = NilMap
    /\ dChg # NilMap => (IsMap(dChg) /\ MapLen(dChg) > 0)

EmptyDiffWitness ==
  /\ dPc = "done" /\ dA = dB /\ dChg = NilMap
  /\ IsMap(dA) /\ DOMAIN dA.m = {"a", "b"}
  /\ dA.m["a"] = MapV([k \in {"c"} |-> MapV([j \in {"e"} |-> NullV])])
  /\ dA.m["b"] = ListV(<<IntV(1)>>)

\* C5: applying Diff(a, b) to a copy of a yields b, and a nil diff means a = b
RoundTrip ==
  (dPc = "done" /\ dA # NilMap /\ dB # NilMap) =>
    (dDst = dB /\ (dChg = NilMap => dA = dB))

\* C15: WalkObjectRevisions yields every record of the store exactly once, in
\* ascending (uid, id) order, with the uid and id under which it was written
\* and exactly one of snapshot / patch, and yields nothing after yield has
\* returned false.
WalkContract ==
  walk.pc = "done" =>
    LET W == {[objectUID |-> w.objectUID, revisionID |-> BigEndian(w.id),
               kind |-> w.kind] : w \in walk.written}
        n == Len(walk.out)
        Y(i) == [objectUID |-> walk.out[i].objectUID,
                 revisionID |-> walk.out[i].revisionID,
                 kind |-> IF walk.out[i].rec.snapshot # NoRec
                             /\ walk.out[i].rec.patch = NoRec THEN "snapshot"
                          ELSE IF walk.out[i].rec.patch # NoRec
                                  /\ walk.out[i].rec.snapshot = NoRec THEN "patch"
                          ELSE "none"]
        Less(a, b) ==
          \/ BytesLess(a.objectUID, b.objectUID)
          \/ a.objectUID = b.objectUID /\ BytesLess(a.revisionID, b.revisionID)
    IN /\ n = IF walk.stop < Cardinality(W) THEN walk.stop ELSE Cardinality(W)
       /\ \A i \in 1..n : Y(i) \in W
       /\ \A i, j \in 1..n : i < j => Less(Y(i), Y(j))
       /\ \A i \in 1..n : \A w \in W : Less(w, Y(i)) => \E j \in 1..n : Y(j) = w

\* C16: the Mux is reliable: while it is running, every event whose informer
\* callback has returned is in the Events() channel or has been received from
\* it, however slowly the consumer drains the channel.
MuxReliable ==
  mux.running =>
    \A e \in mux.returned :
      e \in mux.received \/ \E i \in 1..Len(mux.events) : mux.events[i] = e

\* C17: the record a Commit writes on top of the latest revision R is a
\* Snapshot if R mod K = K - 1, and otherwise a Patch whose PreviousID is R and
\* whose body is exactly Diff(the object Restore materializes at R, newObject).
CommitRecordRule ==
  \A k \in DOMAIN bucketSnapshots :
    k[2] > 0 =>
      LET R == k[2] - 1
          rec == parsePatchOrSnapshot(bucketSnapshots[k])
          base == Restore(bucketSnapshots, k[1], R)
      IN IF R % snapshotEvery = snapshotEvery - 1
         THEN /\ rec.snapshot # NoRec
              /\ rec.snapshot.Object = committed[k]
         ELSE /\ rec.patch # NoRec
              /\ rec.patch.PreviousID = R
              /\ base.err = ""
              /\ rec.patch.Patch = Diff(base.snapshot.Object, committed[k])

\* C18: Restore is bounded: from every revision on record, also one written by
\* overlapping Commits, the walk back to the base Snapshot ends without error
\* after at most K - 1 Patch records (so at most K records are read and at most
\* K - 1 patches applied).
RestoreBounded ==
  \A k \in DOMAIN bucketSnapshots :
    LET chain == patchDistance(bucketSnapshots, k[1], k[2])
        r == Restore(bucketSnapshots, k[1], k[2])
    IN /\ chain.err = ""
       /\ chain.n <= snapshotEvery - 1
       /\ r.err = ""

RestoreBoundedWitness ==
  /\ snapshotEvery = 2
  /\ {<<ConcUID, 1>>, <<ConcUID, 2>>} \subseteq DOMAIN bucketSnapshots
  /\ parsePatchOrSnapshot(bucketSnapshots[<<ConcUID, 2>>]).patch # NoRec
  /\ parsePatchOrSnapshot(bucketSnapshots[<<ConcUID, 2>>]).patch.PreviousID = 0
  /\ patchDistance(bucketSnapshots, ConcUID, 2).n = 1

\* C19: chain invariant: every uid with a record has a Snapshot at revision 0;
\* the PreviousID of every Patch is smaller than its own ID and has a record;
\* and following PreviousID from any record lands on a Snapshot.
ChainInvariant ==
  \A k \in DOMAIN bucketSnapshots :
    LET rec == parsePatchOrSnapshot(bucketSnapshots[k])
    IN /\ <<k[1], 0>> \in DOMAIN bucketSnapshots
       /\ IsSnapshotAt(<<k[1], 0>>)
       /\ rec.err = ""
       /\ rec.patch # NoRec =>
            /\ rec.patch.PreviousID < k[2]
            /\ <<k[1], rec.patch.PreviousID>> \in DOMAIN bucketSnapshots
       /\ patchDistance(bucketSnapshots, k[1], k[2]).err = ""

ChainInvariantWitness ==
  /\ snapshotEvery = DefaultSnapshotEvery
  /\ \E u \in UIDs :
       /\ {<<u, 0>>, <<u, 1>>, <<u, 2>>} \subseteq DOMAIN bucketSnapshots
       /\ parsePatchOrSnapshot(bucketSnapshots[<<u, 2>>]).patch # NoRec
       /\ parsePatchOrSnapshot(bucketSnapshots[<<u, 2>>]).patch.PreviousID = 1
       /\ parsePatchOrSnapshot(bucketSnapshots[<<u, 1>>]).patch # NoRec
       /\ patchDistance(bucketSnapshots, u, 2).n = 2

\* C20: the record at every revision r > 0 has PreviousID r - 1 and the record
\* at revision 0 has PreviousID 0, also when Commits to the uid overlap.
PreviousIsPredecessor ==
  \A k \in DOMAIN bucketSnapshots :
    LET rec == parsePatchOrSnapshot(bucketSnapshots[k])
    IN /\ rec.snapshot # NoRec => rec.snapshot.PreviousID = PrevOf(k[2])
       /\ rec.patch # NoRec => rec.patch.PreviousID = PrevOf(k[2])

\* C21: per-uid serialization: two Commits to one uid are never both between
\* reading the previous state and finishing their store write.
PerUIDSerialized ==
  LET InWindow(p) == /\ loc[p].op = "commit"
                     /\ pc[p] \in {"glr_fill", "dist", "write", "commit"}
  IN \A p, q \in Procs :
       (p # q /\ InWindow(p) /\ InWindow(q)) => loc[p].uid # loc[q].uid

\* C22: without any lock above the store, interleaved Commits to one uid still
\* get unique and dense IDs, every record's PreviousID chain reaches a
\* Snapshot, and Restore(uid, r) is the object of the Commit that wrote r.
LockFreeCorrect ==
  LET ids == {k[2] : k \in {x \in DOMAIN bucketSnapshots : x[1] = ConcUID}}
  IN /\ ids = 0..(Cardinality(ids) - 1)
     /\ \A i, j \in 1..Len(returned[ConcUID]) :
          i # j => returned[ConcUID][i] # returned[ConcUID][j]
     /\ \A r \in ids :
          LET got == Restore(bucketSnapshots, ConcUID, r)
          IN /\ patchDistance(bucketSnapshots, ConcUID, r).err = ""
             /\ got.err = ""
             /\ got.snapshot.Object = committed[<<ConcUID, r>>]

\* C23: Restore and the chain walk of Commit terminate on every store that
\* Commits have written: every turn of the loop either returns or moves to a
\* strictly smaller revision that is not below 0, every Patch on record points
\* below itself, and a walk from a revision on record ends without error.
WalkTerminates ==
  [][/\ \A p \in Procs :
          (pc[p] = "walk" /\ pc'[p] = "walk" /\ loc'[p] # loc[p]) =>
            (loc'[p].latest < loc[p].latest /\ loc'[p].latest >= 0)
     /\ \A p \in Procs :
          (pc[p] = "walk" /\ pc'[p] = "idle"
             /\ <<loc[p].uid, loc[p].id>> \in DOMAIN bucketSnapshots) =>
            (ret'.err = "" /\ IsSnapshotAt(<<loc[p].uid, loc[p].latest>>))
     /\ \A k \in DOMAIN bucketSnapshots' :
          LET rec == parsePatchOrSnapshot(bucketSnapshots'[k])
          IN rec.patch # NoRec => rec.patch.PreviousID < k[2]]_vars

WalkTerminatesWitness ==
  /\ ret.op = "restore"
  /\ ret.err = ""
  /\ ret.rev = 2
  /\ snapshotEvery = DefaultSnapshotEvery
  /\ ret.val = committed[<<ret.uid, 2>>]

\* C24: when the walk back from a revision reaches an ID without record, or a
\* record that is neither Snapshot nor Patch, Restore returns an error and no
\* object, and a Commit on top of that revision fails and writes nothing.
BrokenChainFails ==
  [][LET Broken(recs, u, r) ==
           \E j \in 0..r :
             /\ \A i \in (j + 1)..r :
                  <<u, i>> \in DOMAIN recs /\ recs[<<u, i>>][1] = TypePatch
             /\ \/ <<u, j>> \notin DOMAIN recs
                \/ recs[<<u, j>>][1] \notin {TypeSnapshot, TypePatch}
     IN /\ (ret'.op = "restore" /\ Broken(bucketSnapshots', ret'.uid, ret'.rev)) =>
             (ret'.err # "" /\ ret'.val = NilMap)
        /\ \A p \in Procs :
             (pc[p] = "dist" /\ pc'[p] # "dist"
                /\ Broken(bucketSnapshots, loc[p].uid, loc[p].latest)) =>
               /\ pc'[p] = "idle"
               /\ ret'.op = "commit" /\ ret'.err # ""
               /\ bucketSnapshots' = bucketSnapshots
               /\ bucketLatest' = bucketLatest]_vars

BrokenChainFailsWitness ==
  /\ ret.op = "commit"
  /\ ret.err = "ErrInvalidRevision"
  /\ <<ret.uid, 1>> \in DOMAIN bucketSnapshots
  /\ bucketSnapshots[<<ret.uid, 1>>][1] = TypePatch
  /\ bucketSnapshots[<<ret.uid, 0>>][1] \notin {TypeSnapshot, TypePatch}

\* C25: Diff(a, b) is minimal: at every nesting level it has a key k exactly
\* when a and b differ at k; k -> null when k is only in a, k -> b[k] when k is
\* only in b or the values differ and are not both mappings, k -> a non-empty
\* sub-diff of the same kind when both are mappings; nil when nothing differs.
DiffMinimal ==
  LET RECURSIVE Minimal(_, _, _)
      Minimal(a, b, d) ==
        /\ DOMAIN d = {k \in DOMAIN a \cup DOMAIN b :
                         k \notin DOMAIN a \/ k \notin DOMAIN b \/ a[k] # b[k]}
        /\ \A k \in DOMAIN d :
             IF k \notin DOMAIN b THEN d[k] = NullV
             ELSE IF k \notin DOMAIN a THEN d[k] = b[k]
             ELSE IF IsMap(a[k]) /\ IsMap(b[k])
                  THEN /\ IsMap(d[k])
                       /\ DOMAIN d[k].m # {}
                       /\ Minimal(a[k].m, b[k].m, d[k].m)
                  ELSE d[k] = b[k]
  IN dPc \in {"apply", "done"} =>
       IF dChg = NilMap THEN Entries(dA) = Entries(dB)
       ELSE IsMap(dChg) /\ Minimal(Entries(dA), Entries(dB), dChg.m)

DiffMinimalWitness ==
  /\ dPc = "done"
  /\ dA = MapV([k \in {"a", "b"} |->
                 IF k = "a" THEN IntV(1) ELSE MapV([j \in {"c"} |-> IntV(1)])])
  /\ dB = MapV([k \in {"a", "b"} |->
                 IF k = "a" THEN IntV(1) ELSE MapV([j \in {"c"} |-> IntV(2)])])
  /\ dChg = MapV([k \in {"b"} |-> MapV([j \in {"c"} |-> IntV(2)])])

\* C26: Apply(dst, diff) changes only what diff names: a null entry removes the
\* key, a mapping entry leaves a mapping that is dst[k] (or an empty mapping,
\* when dst[k] is none) changed in the same way, any other entry sets the key,
\* every other key keeps its value; a nil operand or empty diff changes nothing.
ApplyFrame ==
  LET RECURSIVE Frame(_, _, _)
      Frame(dst, chg, out) ==
        \A k \in DOMAIN dst \cup DOMAIN chg \cup DOMAIN out :
          IF k \notin DOMAIN chg
          THEN k \in DOMAIN dst /\ k \in DOMAIN out /\ out[k] = dst[k]
          ELSE IF chg[k] = NullV THEN k \notin DOMAIN out
          ELSE IF IsMap(chg[k])
          THEN /\ k \in DOMAIN out
               /\ IsMap(out[k])
               /\ Frame(IF k \in DOMAIN dst /\ IsMap(dst[k]) THEN dst[k].m
                        ELSE [j \in {} |-> NullV],
                        chg[k].m, out[k].m)
          ELSE k \in DOMAIN out /\ out[k] = chg[k]
  IN dPc = "applied" =>
       IF dA = NilMap \/ dChg = NilMap \/ MapLen(dChg) = 0 THEN dDst = dA
       ELSE IsMap(dDst) /\ Frame(dA.m, dChg.m, dDst.m)

ApplyFrameWitness ==
  /\ dPc = "applied"
  /\ dA = MapV([k \in {"a", "b"} |->
                 IF k = "a" THEN IntV(1) ELSE MapV([j \in {"c"} |-> IntV(1)])])
  /\ dChg = MapV([k \in {"a", "b"} |->
                   IF k = "a" THEN MapV([j \in {"c"} |-> NullV])
                   ELSE MapV([j \in {"c"} |-> MapV([i \in {"e"} |-> IntV(1)])])])
  /\ dDst = MapV([k \in {"a", "b"} |->
                   IF k = "a" THEN EmptyMap
                   ELSE MapV([j \in {"c"} |-> MapV([i \in {"e"} |-> IntV(1)])])])

\* C27: append-only: no step (Commit, Restore, replay, reopening, or a write
\* that fails) changes or removes a record that exists, so that Get, which
\* reads nothing but the stored value, returns the same type and body later.
AppendOnly ==
  [][\A k \in DOMAIN bucketSnapshots :
       /\ k \in DOMAIN bucketSnapshots'
       /\ bucketSnapshots'[k] = bucketSnapshots[k]]_vars

AppendOnlyWitness ==
  /\ started = 3
  /\ \E u \in UIDs :
       /\ returned[u] = <<0, 1>>
       /\ ret.op = "commit" /\ ret.uid = u /\ ret.err = "" /\ ret.rev = 1
       /\ bucketLatest[u] = 2
       /\ DOMAIN bucketSnapshots = {<<u, 0>>, <<u, 1>>}

\* C28: WarmCache(uid, .) never runs while a Commit for that uid is in
\* progress: the replay has finished before the collector's first Commit.
WarmCacheAlone ==
  [][\A p \in Procs :
       (pc[p] = "replay" /\ cache'.data # cache.data) =>
         \A q \in Procs :
           ~(loc[q].op = "commit" /\ pc[q] # "idle" /\ loc[q].uid = loc'[p].uid)]_vars

LatestIsCommitted ==
  (ret.op = "glr" /\ ret.err = "") =>
    /\ <<ret.uid, ret.rev>> \in DOMAIN bucketSnapshots
    /\ Get(bucketSnapshots, ret.uid, ret.rev).err = ""

\* C31: the cache never holds more than maxTrackedEntries entries; at that
\* count a set for a uid without an entry is dropped: no entry is added,
\* removed or altered, neither by the locked part of set nor by its stamp.
CacheCapacity ==
  [][/\ Cardinality(DOMAIN cache'.data) <= maxTrackedEntries
     /\ \A uid \in UIDs :
          ( /\ cache.call.pc = "idle" /\ cache'.call.pc = "set_stamp"
            /\ cache'.call.uid = uid
            /\ uid \notin DOMAIN cache.data
            /\ Cardinality(DOMAIN cache.data) = maxTrackedEntries ) =>
              /\ cache'.data = cache.data
              /\ \A u \in DOMAIN cache.data : cache'.heap[cache.data[u]] = cache.heap[cache.data[u]]
     /\ ( /\ cache.call.pc = "set_stamp" /\ cache'.call.pc = "idle"
          /\ \A u \in DOMAIN cache.data : cache.data[u] # cache.call.e ) =>
            /\ cache'.data = cache.data
            /\ \A u \in DOMAIN cache.data : cache'.heap[cache.data[u]] = cache.heap[cache.data[u]]
    ]_vars

\* a set for a uid without an entry has found the cache full
CacheCapacityWitness ==
  /\ cache.call.pc = "set_stamp"
  /\ cache.call.uid \notin DOMAIN cache.data
  /\ Cardinality(DOMAIN cache.data) = maxTrackedEntries

\* C32: a set for a uid that has an entry replaces the entry and leaves the
\* number of entries as it was, at the cap too: the map then holds the entry
\* that was handed in, which is what a following get returns.
SetReplaces ==
  [][\A uid \in UIDs :
       ( /\ cache.call.pc = "idle" /\ cache'.call.pc = "set_stamp"
         /\ cache'.call.uid = uid
         /\ uid \in DOMAIN cache.data ) =>
           /\ DOMAIN cache'.data = DOMAIN cache.data
           /\ cache'.data[uid] = cache'.call.e]_vars

\* C33: with no Commit of uid in progress, a cache entry of uid carries the
\* latest revision of uid and the object of the Commit that produced it; and
\* a successful Commit below the cap leaves an entry for its uid.
CacheCoherent ==
  [][/\ \A u \in DOMAIN cache'.data :
          /\ u \in DOMAIN nextRevisionCounter'
          /\ cache'.data[u].rev = nextRevisionCounter'[u] - 1
          /\ <<u, cache'.data[u].rev>> \in DOMAIN committed'
          /\ cache'.data[u].obj = committed'[<<u, cache'.data[u].rev>>]
     /\ ( /\ started' # started
          /\ ret'.op = "ccommit" /\ ret'.err = ""
          /\ Cardinality(DOMAIN cache.data) < maxTrackedEntries ) =>
            ret'.uid \in DOMAIN cache'.data]_vars

\* C34: a sweep removes an entry exactly when the sweep's now minus lastRead
\* exceeds ttlBase + hitCount * ttlHitBonus, and otherwise keeps it and halves
\* its hitCount; an entry that a get or a set reached within the last ttlBase
\* is never removed.
EvictionPolicy ==
  [][\A k \in UIDs :
       LET e == cache.heap[cache.data[k]]
       IN /\ (cache.ev.pc = "loop" /\ k \in cache.ev.todo /\ k \notin cache'.ev.todo
              /\ cache'.ev.pc # "store") =>
               /\ cache.ev.now - e.lastRead > ttlBase + e.hitCount * ttlHitBonus
               /\ k \notin DOMAIN cache'.data
               /\ cache.now - e.touched > ttlBase
          /\ (cache.ev.pc = "loop" /\ cache'.ev.pc = "store" /\ cache'.ev.k = k) =>
               /\ cache.ev.now - e.lastRead <= ttlBase + e.hitCount * ttlHitBonus
               /\ k \in DOMAIN cache'.data
          /\ (cache.ev.pc = "store" /\ cache.ev.k = k /\ cache'.ev.pc # "store") =>
               /\ k \in DOMAIN cache'.data
               /\ cache'.heap[cache'.data[k]].hitCount = e.hitCount \div 2]_vars

\* C35: a get that hits adds exactly one to the hitCount of the entry and
\* stamps its lastRead, a miss changes nothing, and the halving of a sweep
\* loses no increment: what it leaves is the halved count with the increments
\* made meanwhile, taken before or after the halving.
HitsCounted ==
  [][/\ (cache.call.pc = "get_add" /\ cache'.call.pc = "get_stamp") =>
          cache'.heap[cache.call.e].hitCount = cache.heap[cache.call.e].hitCount + 1
     /\ (cache.call.pc = "get_stamp" /\ cache'.call.pc = "idle") =>
          \A u \in DOMAIN cache'.data :
             cache'.data[u] = cache.call.e => cache'.heap[cache.call.e].lastRead = cache.now
     /\ (cache'.gets # cache.gets /\ cache'.call.pc = "idle") =>
          cache' = [cache EXCEPT !.gets = cache'.gets]
     /\ (cache.ev.pc = "store" /\ cache'.ev.pc # "store") =>
          LET e == cache.data[cache.ev.k]
              cur == cache.heap[e].hitCount
          IN cache'.heap[e].hitCount \in
               {cur \div 2, (cache.ev.hc \div 2) + (cur - cache.ev.hc)}]_vars

\* C36: the object the replay handed on for a revision reads, after the later
\* records of the walk have been processed, as it read when it was handed on.
ReplayFrame ==
  (ret.op = "load" /\ ret.err = "") =>
    loadHistoryHeld(WalkObjectRevisions(bucketSnapshots, DOMAIN bucketSnapshots),
                    1, EmptyFn, EmptyFn) = ret.val

\* C37: no informer callback sends on the events channel after Stop has
\* closed it (such a send panics), and the channel is closed at most once.
NoSendAfterClose ==
  ~mux.panicked

\* C38: splitting the key made of a non-empty uid and an id gives the uid and
\* the id back, and the keys of distinct (uid, id) pairs differ.
KeyRoundTrip ==
  \A w \in walk.written :
    /\ w.objectUID # <<>> =>
         splitObjectRevisionKey(keyObjectRevisionBytes(w.objectUID, w.id)) =
           [objectUID |-> w.objectUID, id |-> BigEndian(w.id)]
    /\ \A v \in walk.written :
         keyObjectRevisionBytes(v.objectUID, v.id) = keyObjectRevisionBytes(w.objectUID, w.id)
           => (v.objectUID = w.objectUID /\ v.id = w.id)

====
